---- MODULE Spec2Model ----
(***************************************************************************)
(* Model of the PBFCM tax-sale scraper (src/pbfcm_engine.py) and of the    *)
(* way its callers (src/pbfcm_api.py, src/pbfcm_cli.py) drive it.          *)
(*                                                                         *)
(* Representation of values                                                *)
(*   - an optional value (JS null / Python None) is a sequence of length   *)
(*     at most one: None == <<>>, Some(x) == <<x>>;                        *)
(*   - a text is a sequence of tokens; the token " " is whitespace, the    *)
(*     other tokens are words;                                             *)
(*   - a URL string is kept in split form (what urlsplit returns), plus    *)
(*     the flag `hash` telling whether a '#' delimiter is present; a path  *)
(*     is the list path.split('/') of segments, a segment is stem + ext.   *)
(***************************************************************************)
EXTENDS Integers, Sequences, FiniteSets, TLC

(* ------------------------------ bounds --------------------------------- *)
NumTasks == 2      \* concurrent callers of one scraper object
MaxCalls == 3      \* start()/stop()/scrape() calls begun in one behaviour
MaxNodes == 2      \* child nodes of the container in a generated document

(* ------------------------------ options -------------------------------- *)
None == <<>>
Some(x) == <<x>>
IsSome(o) == Len(o) = 1
Get(o) == o[1]

(* ------------------------------- texts --------------------------------- *)
NoText == <<>>

RECURSIVE LStrip(_)
LStrip(s) == IF s = <<>> THEN s
             ELSE IF Head(s) = " " THEN LStrip(Tail(s)) ELSE s

RECURSIVE RStrip(_)
RStrip(s) == IF s = <<>> THEN s
             ELSE IF s[Len(s)] = " " THEN RStrip(SubSeq(s, 1, Len(s) - 1)) ELSE s

\* String.prototype.trim() / str.strip()
Trim(s) == RStrip(LStrip(s))

\* words that contain a letter ( /[A-Za-z]/ )
LetterWords == {"Smith", "County", "SALE", "Notice"}
\* words that contain one of county|pct|sale|isd|sheriff, ignoring case
KeywordWords == {"County", "SALE"}

HasLetter(txt) == \E i \in 1..Len(txt) : txt[i] \in LetterWords
HasKeyword(txt) == \E i \in 1..Len(txt) : txt[i] \in KeywordWords

(* -------------------------------- URLs --------------------------------- *)
E == [stem |-> "", ext |-> ""]
Seg(s, e) == [stem |-> s, ext |-> e]
DotDot == [stem |-> "..", ext |-> ""]
Dot == [stem |-> ".", ext |-> ""]

Url(s, n, p, q, f, h) ==
    [scheme |-> s, netloc |-> n, path |-> p, query |-> q, frag |-> f, hash |-> h]

\* PBF_URL = "https://www.pbfcm.com/taxsale.html"
PBF_URL == Url("https", "www.pbfcm.com", <<E, Seg("taxsale", "html")>>, "", "", FALSE)

\* the empty string ""
EmptyStr == Url("", "", <<E>>, "", "", FALSE)

\* str.lower() on the words the model uses
Lower(w) == CASE w = "PDF" -> "pdf"
              [] w = "Docx" -> "docx"
              [] w = "XLS" -> "xls"
              [] w = "HTTPS" -> "https"
              [] OTHER -> w

\* urllib.parse.uses_relative / uses_netloc, restricted to the schemes used
uses_relative == {"", "http", "https", "ftp"}
uses_netloc == {"", "http", "https", "ftp"}

\* urlsplit raises ValueError("Invalid IPv6 URL") for a netloc with an
\* unbalanced bracket
BadNetlocs == {"[bad"}

\* path == '' / path[:1] == '/'
PathEmpty(p) == p = <<E>>
PathAbs(p) == Len(p) > 1 /\ p[1] = E

\* urlunparse: a path is made absolute when a netloc is written; an empty
\* fragment leaves no '#'
UrlUnparse(s, n, p, q, f) ==
    Url(s, n, IF n # "" /\ ~PathEmpty(p) /\ ~PathAbs(p) THEN <<E>> \o p ELSE p,
        q, f, f # "")

\* segments[1:-1] = filter(None, segments[1:-1])
RECURSIVE FilterNonEmpty(_)
FilterNonEmpty(s) == IF s = <<>> THEN <<>>
                     ELSE IF Head(s) = E THEN FilterNonEmpty(Tail(s))
                     ELSE <<Head(s)>> \o FilterNonEmpty(Tail(s))

FilterMiddle(s) == IF Len(s) <= 2 THEN s
                   ELSE <<s[1]>> \o FilterNonEmpty(SubSeq(s, 2, Len(s) - 1)) \o <<s[Len(s)]>>

\* the loop over segments that resolves '.' and '..'
RECURSIVE ResolveDots(_, _)
ResolveDots(segs, acc) ==
    IF segs = <<>> THEN acc
    ELSE IF Head(segs) = DotDot
         THEN ResolveDots(Tail(segs), IF acc = <<>> THEN acc ELSE SubSeq(acc, 1, Len(acc) - 1))
    ELSE IF Head(segs) = Dot THEN ResolveDots(Tail(segs), acc)
    ELSE ResolveDots(Tail(segs), Append(acc, Head(segs)))

\* '/'.join(resolved_path) or '/'
JoinOrRoot(rp) == IF rp = <<>> \/ rp = <<E>> THEN <<E, E>> ELSE rp

Ok(v) == [ok |-> TRUE, val |-> v]
ValueError == [ok |-> FALSE, val |-> EmptyStr]

\* urllib.parse.urljoin(base, url)
urljoin(base, url) ==
    IF url = EmptyStr THEN Ok(base)
    ELSE IF url.netloc \in BadNetlocs THEN ValueError
    ELSE
      LET scheme == IF url.scheme = "" THEN base.scheme ELSE Lower(url.scheme)
      IN IF scheme # base.scheme \/ scheme \notin uses_relative THEN Ok(url)
         ELSE IF url.netloc # ""
              THEN Ok(UrlUnparse(scheme, url.netloc, url.path, url.query, url.frag))
         ELSE IF PathEmpty(url.path)
              THEN Ok(UrlUnparse(scheme, base.netloc, base.path,
                                 IF url.query = "" THEN base.query ELSE url.query,
                                 url.frag))
         ELSE
           LET bp == base.path
               base_parts == IF bp[Len(bp)] # E THEN SubSeq(bp, 1, Len(bp) - 1) ELSE bp
               segments == IF PathAbs(url.path) THEN url.path
                           ELSE FilterMiddle(base_parts \o url.path)
               last == segments[Len(segments)]
               resolved == ResolveDots(segments, <<>>)
               resolved_path == IF last \in {Dot, DotDot} THEN Append(resolved, E)
                                ELSE resolved
           IN Ok(UrlUnparse(scheme, base.netloc, JoinOrRoot(resolved_path),
                            url.query, url.frag))

\* urldefrag that leaves the fragment in place
urldefrag_keep(u) == u

\* urllib.parse.urldefrag(url)[0]
urldefrag(u) == IF u.hash THEN UrlUnparse(Lower(u.scheme), u.netloc, u.path, u.query, "")
                ELSE u

(* ------------------------- the rendered document ----------------------- *)
\* An element: tag "a" or "div"; cls tells whether it carries the class
\* tax-list-file; href is the href attribute (None when absent); inner is
\* the list of anchors nested in a div.
Anchor(cls, it, tc, h) ==
    [tag |-> "a", cls |-> cls, innerText |-> it, textContent |-> tc, href |-> h,
     inner |-> <<>>]
Div(it, inner) ==
    [tag |-> "div", cls |-> TRUE, innerText |-> it, textContent |-> it, href |-> None,
     inner |-> inner]

\* A document: containers[i] is the list of child nodes of a container;
\* entities are the .tax-list-entity-title elements and sections the
\* h1,h2,h3,strong,b,li elements, each with the container that
\* closest(...) || parentElement || document resolves to.
Document(ents, secs, conts) == [entities |-> ents, sections |-> secs, containers |-> conts]
TitleEl(it, tc, root) == [innerText |-> it, textContent |-> tc, root |-> root]

\* a || b for texts: the empty string is falsy
OrText(a, b) == IF a # NoText THEN a ELSE b

RECURSIVE FlatMap(_, _)
FlatMap(F(_), s) == IF s = <<>> THEN <<>> ELSE F(Head(s)) \o FlatMap(F, Tail(s))

RECURSIVE Filter(_, _)
Filter(P(_), s) == IF s = <<>> THEN <<>>
                   ELSE (IF P(Head(s)) THEN <<Head(s)>> ELSE <<>>) \o Filter(P, Tail(s))

\* root.querySelectorAll(".tax-list-file, .tax-list-file a"), document order
FileMatches(n) == IF ~n.cls THEN <<>>
                  ELSE IF n.tag = "div" THEN <<n>> \o n.inner ELSE <<n>>
QueryFiles(nodes) == FlatMap(FileMatches, nodes)

\* every anchor below the container, document order
AnchorsOf(n) == IF n.tag = "a" THEN <<n>> ELSE n.inner
QueryAnchors(nodes) == FlatMap(AnchorsOf, nodes)

\* the attribute selectors of the Tier A fallback, on the href attribute
SaleStems == {"taxsale", "sale"}
EndsWithPdf(u) == u.path[Len(u.path)].ext = "pdf" /\ u.query = "" /\ ~u.hash
ContainsSale(u) == \E i \in 1..Len(u.path) : u.path[i].stem \in SaleStems
StartsWithHttp(u) == u.scheme \in {"http", "https"}
StartsWithSlash(u) == u.scheme = "" /\ (u.netloc # "" \/ PathAbs(u.path))
FallbackMatch(a) ==
    /\ IsSome(a.href)
    /\ LET u == Get(a.href)
       IN EndsWithPdf(u) \/ ContainsSale(u) \/ StartsWithHttp(u) \/ StartsWithSlash(u)
QueryFallback(nodes) == Filter(FallbackMatch, QueryAnchors(nodes))

\* a[href]
HasHref(a) == IsSome(a.href)
QueryLinks(nodes) == Filter(HasHref, QueryAnchors(nodes))

(* ------------------------- extraction (in-page JS) --------------------- *)
Row(t, f, h) == [title |-> t, file |-> f, href |-> h]

\* record that pushes nothing for an element without label and href
record_skipbare(title, elFile) ==
    LET a == IF elFile.tag = "a" THEN Some(elFile)
             ELSE IF elFile.inner # <<>> THEN Some(Head(elFile.inner)) ELSE None
        src == IF IsSome(a) THEN Get(a).innerText ELSE elFile.innerText
        label == IF src # NoText THEN Some(Trim(src)) ELSE None
        href == IF IsSome(a) THEN Get(a).href ELSE None
    IN IF label = None /\ href = None THEN <<>>
       ELSE <<Row(IF title # NoText THEN Some(Trim(title)) ELSE None, label, href)>>

\* const record = (title, elFile) => {...}: the row pushed for one element
record(title, elFile) ==
    LET a == IF elFile.tag = "a" THEN Some(elFile)
             ELSE IF elFile.inner # <<>> THEN Some(Head(elFile.inner)) ELSE None
        src == IF IsSome(a) THEN Get(a).innerText ELSE elFile.innerText
        label == IF src # NoText THEN Some(Trim(src)) ELSE None
        href == IF IsSome(a) THEN Get(a).href ELSE None
    IN <<Row(IF title # NoText THEN Some(Trim(title)) ELSE None, label, href)>>

\* the file elements one title element records: the marked elements of its
\* container, else the fallback links of the container
FilesOf(doc, titleEl) ==
    LET root == doc.containers[titleEl.root]
        files == QueryFiles(root)
    IN IF Len(files) > 0 THEN files ELSE QueryFallback(root)

\* body of `for (const titleEl of entities)`
TierATitle(doc, titleEl) ==
    LET title == OrText(titleEl.innerText, OrText(titleEl.textContent, NoText))
        rec(el) == record(title, el)
    IN FlatMap(rec, FilesOf(doc, titleEl))

TierA(doc) == LET f(titleEl) == TierATitle(doc, titleEl) IN FlatMap(f, doc.entities)

\* href.startsWith("#")
StartsWithHash(u) ==
    u.scheme = "" /\ u.netloc = "" /\ PathEmpty(u.path) /\ u.query = "" /\ u.hash

\* body of links.forEach(a => {...})
TierBLink(txt, a) ==
    LET label == Trim(OrText(a.innerText, OrText(a.textContent, NoText)))
        href == Get(a.href)
    IN IF href = EmptyStr \/ StartsWithHash(href) THEN <<>>
       ELSE <<Row(Some(txt), IF label # NoText THEN Some(label) ELSE None, Some(href))>>

\* body of `for (const s of sections)`
TierBSection(doc, s) ==
    LET txt == Trim(OrText(s.innerText, NoText))
        link(a) == TierBLink(txt, a)
    IN IF txt = NoText \/ ~HasLetter(txt) \/ ~HasKeyword(txt) THEN <<>>
       ELSE FlatMap(link, QueryLinks(doc.containers[s.root]))

TierB(doc) == LET f(s) == TierBSection(doc, s) IN FlatMap(f, doc.sections)

hasExplicit(doc) == Len(doc.entities) > 0

\* a script that falls through to Tier B when Tier A found no file
ExtractJs_fallthrough(doc) ==
    IF hasExplicit(doc) /\ TierA(doc) # <<>> THEN [out |-> TierA(doc), ran |-> "A"]
    ELSE [out |-> TierB(doc), ran |-> "B"]

\* the in-page script of _extract_js: the rows pushed to `out`, and which
\* branch of `if (hasExplicit)` ran
ExtractJs(doc) ==
    IF hasExplicit(doc) THEN [out |-> TierA(doc), ran |-> "A"]
    ELSE [out |-> TierB(doc), ran |-> "B"]

(* ------------------- canonicalization (Python side) -------------------- *)
\* r.get(k) or ""
OrEmptyText(o) == IF IsSome(o) THEN Get(o) ELSE NoText
OrEmptyUrl(o) == IF IsSome(o) THEN Get(o) ELSE EmptyStr

\* `if href:` -- neither None nor ""
Truthy(h) == IsSome(h) /\ Get(h) # EmptyStr

Key(r) == <<OrEmptyText(r.title), OrEmptyText(r.file), OrEmptyUrl(r.href)>>

\* the href after `absu = urljoin(PBF_URL, href); absu, _ = urldefrag(absu)`
Absolutize(r) ==
    IF ~Truthy(r.href) THEN Ok(r)
    ELSE LET j == urljoin(PBF_URL, Get(r.href))
         IN IF ~j.ok THEN [ok |-> FALSE, val |-> r]
            ELSE Ok([r EXCEPT !.href = Some(urldefrag(j.val))])

\* a loop that computes the key before the href is made absolute
RECURSIVE CleanLoop_rawkey(_, _, _, _)
CleanLoop_rawkey(rows, i, seen, cleaned) ==
    IF i > Len(rows) THEN [ok |-> TRUE, rows |-> cleaned]
    ELSE LET a == Absolutize(rows[i])
         IN IF ~a.ok THEN [ok |-> FALSE, rows |-> <<>>]
            ELSE IF Key(rows[i]) \in seen THEN CleanLoop_rawkey(rows, i + 1, seen, cleaned)
            ELSE CleanLoop_rawkey(rows, i + 1, seen \cup {Key(rows[i])}, Append(cleaned, a.val))

\* the loop `for r in rows:` of _extract_js, from row i on
RECURSIVE CleanLoop(_, _, _, _)
CleanLoop(rows, i, seen, cleaned) ==
    IF i > Len(rows) THEN [ok |-> TRUE, rows |-> cleaned]
    ELSE LET a == Absolutize(rows[i])
         IN IF ~a.ok THEN [ok |-> FALSE, rows |-> <<>>]
            ELSE IF Key(a.val) \in seen THEN CleanLoop(rows, i + 1, seen, cleaned)
            ELSE CleanLoop(rows, i + 1, seen \cup {Key(a.val)}, Append(cleaned, a.val))

\* _extract_js after page.evaluate: ok = FALSE when urljoin raised ValueError
Clean(rows) == CleanLoop(rows, 1, {}, <<>>)

(* ----------------------------- normalization --------------------------- *)
_file_type(url) ==
    IF ~Truthy(url) THEN None
    ELSE LET p == Get(url).path
             ext == Lower(p[Len(p)].ext)
         IN IF ext = "pdf" THEN Some("pdf")
            ELSE IF ext \in {"doc", "docx"} THEN Some("doc")
            ELSE IF ext \in {"xls", "xlsx"} THEN Some("xls")
            ELSE None

\* (x or "").strip() or None
StripOrNone(o) == LET s == Trim(OrEmptyText(o)) IN IF s = NoText THEN None ELSE Some(s)

_normalize(raw) ==
    LET href == IF Truthy(raw.href) THEN raw.href ELSE None
    IN [entity_title |-> StripOrNone(raw.title),
        file_label |-> StripOrNone(raw.file),
        file_url |-> href,
        file_type |-> _file_type(href)]

Normalized(rows) == [i \in 1..Len(rows) |-> _normalize(rows[i])]

\* a pipeline that normalizes the rows as extracted, before _extract_js
\* cleaned them
Pipeline_prededup(rows) ==
    LET c == Clean(rows)
    IN [ok |-> c.ok, raw_rows |-> c.rows, norm_rows |-> Normalized(rows)]

\* the synchronous part of scrape() between page.evaluate and ctx.close():
\* raw_rows as _extract_js returns them, norm_rows built from raw_rows
Pipeline(rows) ==
    LET c == Clean(rows)
    IN [ok |-> c.ok, raw_rows |-> c.rows, norm_rows |-> Normalized(c.rows)]

\* the dict scrape() returns
ScrapeResult(raw_rows, norm_rows) ==
    [source_url |-> PBF_URL, count |-> Len(raw_rows), raw |-> raw_rows,
     normalized |-> norm_rows]

(* ------------------------------ documents ------------------------------ *)
T_Notice == <<"Notice">>
T_Pad == <<" ", "Notice", " ">>
T_Sp == <<" ">>
T_Smith == <<"Smith", " ", "County">>
T_Year == <<"2024">>

\* "a.pdf", "/docs/a.pdf", "/docs/a.pdf#page=2", "#top", "../b.XLS",
\* "https://x.org/r.Docx#", "mailto:x@y#f", "http://[bad"
H_Rel == Url("", "", <<Seg("a", "pdf")>>, "", "", FALSE)
H_Abs == Url("", "", <<E, Seg("docs", ""), Seg("a", "pdf")>>, "", "", FALSE)
H_Frag == Url("", "", <<E, Seg("docs", ""), Seg("a", "pdf")>>, "", "page=2", TRUE)
H_Hash == Url("", "", <<E>>, "", "top", TRUE)
H_Up == Url("", "", <<DotDot, Seg("b", "XLS")>>, "", "", FALSE)
H_Full == Url("https", "x.org", <<E, Seg("r", "Docx")>>, "", "", TRUE)
H_Mail == Url("mailto", "", <<Seg("x@y", "")>>, "", "f", TRUE)
H_Bad == Url("http", "[bad", <<E>>, "", "", FALSE)

\* the child nodes a generated container is built from
NodeSamples ==
    { Div(NoText, <<>>),
      Div(T_Notice, << Anchor(FALSE, T_Pad, T_Pad, Some(H_Frag)) >>),
      Anchor(TRUE, T_Notice, T_Notice, Some(H_Abs)),
      Anchor(TRUE, NoText, NoText, None),
      Anchor(TRUE, T_Sp, T_Sp, Some(EmptyStr)),
      Anchor(TRUE, T_Pad, T_Pad, Some(H_Mail)),
      Anchor(FALSE, T_Notice, T_Notice, Some(H_Rel)),
      Anchor(FALSE, NoText, T_Notice, Some(H_Up)),
      Anchor(FALSE, T_Notice, T_Notice, Some(H_Hash)),
      Anchor(FALSE, T_Notice, T_Notice, Some(H_Bad)) }

NodeLists == UNION { [1..n -> NodeSamples] : n \in 0..MaxNodes }

EntityLists ==
    { << TitleEl(T_Smith, T_Smith, 1) >>,
      << TitleEl(NoText, T_Sp, 1), TitleEl(NoText, NoText, 1) >> }

SectionLists ==
    { << TitleEl(T_Year, T_Year, 1), TitleEl(<<" ", "SALE">>, NoText, 1) >> }

\* documents with explicit title elements (they also hold a heading that
\* Tier B would match), and documents without
DocsA == { Document(e, << TitleEl(T_Smith, T_Smith, 1) >>, <<n>>) :
             e \in EntityLists, n \in NodeLists }
DocsB == { Document(<<>>, s, <<n>>) : s \in SectionLists, n \in NodeLists }
RichDocs == DocsA \cup DocsB

\* the documents of the concurrent specification
SmallDocs ==
    { Document(<< TitleEl(T_Smith, T_Smith, 1) >>, <<>>,
               << << Div(T_Notice, << Anchor(FALSE, T_Pad, T_Pad, Some(H_Frag)) >>),
                     Anchor(TRUE, T_Notice, T_Notice, Some(H_Full)) >> >>),
      Document(<<>>, << TitleEl(T_Smith, T_Smith, 1) >>,
               << << Anchor(FALSE, T_Notice, T_Notice, Some(H_Rel)),
                     Anchor(FALSE, T_Notice, T_Notice, Some(H_Bad)) >> >>) }

(* ------------------------------- state --------------------------------- *)
VARIABLES
    document,   \* the rendered page PBF_URL serves
    _pw,        \* self._pw: id of the Playwright driver, 0 for None
    _browser,   \* self._browser: id of the browser, 0 for None
    pwLive,     \* ids of the running Playwright drivers
    brLive,     \* ids of the running browsers (browser k runs on driver k)
    ctxLive,    \* open browsing contexts, each <<context id, browser id>>
    calls,      \* number of calls begun; a call's number names what it creates
    pc,         \* per caller: the await it is suspended at, or "idle"
    op,         \* per caller: the method of its current or last call
    callNo,     \* per caller: the number of its current or last call
    tgt,        \* per caller: the object its pending await acts on, 0 for none
    rows,       \* per caller: what page.evaluate(js) returned, and the branch run
    ret,        \* per caller: outcome of its last call
    fetchErr    \* per caller: the error page.goto raised in its current call

vars == <<document, _pw, _browser, pwLive, brLive, ctxLive, calls, pc, op, callNo,
          tgt, rows, ret, fetchErr>>

Tasks == 1..NumTasks

NoRows == [out |-> <<>>, ran |-> ""]
NoRet == [kind |-> "none", err |-> "", result |-> None]
Returned(r) == [kind |-> "returned", err |-> "", result |-> r]
Raised(e) == [kind |-> "raised", err |-> e, result |-> None]

TypeOK ==
    /\ _pw \in 0..MaxCalls /\ _browser \in 0..MaxCalls
    /\ pwLive \subseteq 1..MaxCalls /\ brLive \subseteq 1..MaxCalls
    /\ calls \in 0..MaxCalls
    /\ \A t \in Tasks : ret[t].kind \in {"none", "returned", "raised"}

InitScraper ==
    /\ _pw = 0 /\ _browser = 0
    /\ pwLive = {} /\ brLive = {} /\ ctxLive = {}
    /\ calls = 0
    /\ pc = [t \in Tasks |-> "idle"]
    /\ op = [t \in Tasks |-> ""]
    /\ callNo = [t \in Tasks |-> 0]
    /\ tgt = [t \in Tasks |-> 0]
    /\ rows = [t \in Tasks |-> NoRows]
    /\ ret = [t \in Tasks |-> NoRet]
    /\ fetchErr = [t \in Tasks |-> ""]

Init == document \in SmallDocs /\ InitScraper
InitSeq == document \in RichDocs /\ InitScraper

(* --------------------------- call completion --------------------------- *)
\* the call of t returns r / raises e to its caller
Return(t, r) == pc' = [pc EXCEPT ![t] = "idle"] /\ ret' = [ret EXCEPT ![t] = Returned(r)]
Raise(t, e) == pc' = [pc EXCEPT ![t] = "idle"] /\ ret' = [ret EXCEPT ![t] = Raised(e)]
Await(t, p) == pc' = [pc EXCEPT ![t] = p] /\ UNCHANGED ret

\* _new_context up to its first await: self._browser.new_context(...) on b
EnterNewContext(t, b) == Await(t, "new_context") /\ tgt' = [tgt EXCEPT ![t] = b]

(* ------------------------------ start() -------------------------------- *)
\* start() without its `if self._browser: return`
Call_always(t, o) ==
    /\ pc[t] = "idle" /\ calls < MaxCalls
    /\ calls' = calls + 1
    /\ op' = [op EXCEPT ![t] = o]
    /\ callNo' = [callNo EXCEPT ![t] = calls + 1]
    /\ rows' = [rows EXCEPT ![t] = NoRows]
    /\ fetchErr' = [fetchErr EXCEPT ![t] = ""]
    /\ pc' = [pc EXCEPT ![t] = "pw_start"]
    /\ ret' = [ret EXCEPT ![t] = NoRet]
    /\ tgt' = [tgt EXCEPT ![t] = 0]
    /\ UNCHANGED <<document, _pw, _browser, pwLive, brLive, ctxLive>>

\* a call of start() (o = "start") or scrape() (o = "scrape", which awaits
\* self.start() first), up to its first suspension
Call(t, o) ==
    /\ pc[t] = "idle" /\ calls < MaxCalls
    /\ calls' = calls + 1
    /\ op' = [op EXCEPT ![t] = o]
    /\ callNo' = [callNo EXCEPT ![t] = calls + 1]
    /\ rows' = [rows EXCEPT ![t] = NoRows]
    /\ fetchErr' = [fetchErr EXCEPT ![t] = ""]
    /\ IF _browser # 0
       THEN IF o = "start"
            THEN Return(t, None) /\ tgt' = [tgt EXCEPT ![t] = 0]
            ELSE pc' = [pc EXCEPT ![t] = "new_context"]
                 /\ ret' = [ret EXCEPT ![t] = NoRet]
                 /\ tgt' = [tgt EXCEPT ![t] = _browser]
       ELSE pc' = [pc EXCEPT ![t] = "pw_start"]
            /\ ret' = [ret EXCEPT ![t] = NoRet]
            /\ tgt' = [tgt EXCEPT ![t] = 0]
    /\ UNCHANGED <<document, _pw, _browser, pwLive, brLive, ctxLive>>

\* self._pw = await async_playwright().start(), then launch() begins on it
PwStarted(t) ==
    /\ pc[t] = "pw_start"
    /\ _pw' = callNo[t]
    /\ pwLive' = pwLive \cup {callNo[t]}
    /\ Await(t, "launch")
    /\ tgt' = [tgt EXCEPT ![t] = callNo[t]]
    /\ UNCHANGED <<document, _browser, brLive, ctxLive, calls, op, callNo, rows, fetchErr>>

\* self._browser = await self._pw.chromium.launch(...); start() returns
Launched(t) ==
    /\ pc[t] = "launch"
    /\ IF tgt[t] \notin pwLive
       THEN Raise(t, "TargetClosed") /\ UNCHANGED <<_browser, brLive, tgt>>
       ELSE /\ brLive' = brLive \cup {callNo[t]}
            /\ _browser' = callNo[t]
            /\ IF op[t] = "start"
               THEN Return(t, None) /\ UNCHANGED tgt
               ELSE EnterNewContext(t, callNo[t])
    /\ UNCHANGED <<document, _pw, pwLive, ctxLive, calls, op, callNo, rows, fetchErr>>

(* ------------------------------ scrape() ------------------------------- *)
CtxOf(t) == <<callNo[t], tgt[t]>>

\* ctx = await self._browser.new_context(...)
NewContextDone(t) ==
    /\ pc[t] = "new_context"
    /\ IF tgt[t] \notin brLive
       THEN Raise(t, "TargetClosed") /\ UNCHANGED ctxLive
       ELSE ctxLive' = ctxLive \cup {CtxOf(t)} /\ Await(t, "new_page")
    /\ UNCHANGED <<document, _pw, _browser, pwLive, brLive, calls, op, callNo, tgt,
                   rows, fetchErr>>

\* await ctx.route(...); return ctx; page = await ctx.new_page()
NewPageDone(t) ==
    /\ pc[t] = "new_page"
    /\ IF CtxOf(t) \notin ctxLive THEN Raise(t, "TargetClosed") ELSE Await(t, "goto")
    /\ UNCHANGED <<document, _pw, _browser, pwLive, brLive, ctxLive, calls, op, callNo,
                   tgt, rows, fetchErr>>

\* await page.goto(PBF_URL, ...) completes
GotoOk(t) ==
    /\ pc[t] = "goto"
    /\ CtxOf(t) \in ctxLive
    /\ Await(t, "settle")
    /\ UNCHANGED <<document, _pw, _browser, pwLive, brLive, ctxLive, calls, op, callNo,
                   tgt, rows, fetchErr>>

\* what page.goto raises when the fetch fails
FetchErrors == {"NavigationError", "TimeoutError"}

\* page.goto inside the try block: its error is swallowed
GotoFail_swallow(t) ==
    /\ pc[t] = "goto"
    /\ \E e \in FetchErrors \cup {"TargetClosed"} :
         /\ e = "TargetClosed" <=> CtxOf(t) \notin ctxLive
         /\ fetchErr' = [fetchErr EXCEPT ![t] = e]
         /\ Await(t, "settle")
    /\ UNCHANGED <<document, _pw, _browser, pwLive, brLive, ctxLive, calls, op, callNo,
                   tgt, rows>>

\* await page.goto(PBF_URL, ...) raises; nothing in scrape() catches it
GotoFail(t) ==
    /\ pc[t] = "goto"
    /\ \E e \in FetchErrors \cup {"TargetClosed"} :
         /\ e = "TargetClosed" <=> CtxOf(t) \notin ctxLive
         /\ fetchErr' = [fetchErr EXCEPT ![t] = e]
         /\ Raise(t, e)
    /\ UNCHANGED <<document, _pw, _browser, pwLive, brLive, ctxLive, calls, op, callNo,
                   tgt, rows>>

\* try: await page.wait_for_timeout(400) except Exception: pass
Settle(t) ==
    /\ pc[t] = "settle"
    /\ Await(t, "evaluate")
    /\ UNCHANGED <<document, _pw, _browser, pwLive, brLive, ctxLive, calls, op, callNo,
                   tgt, rows, fetchErr>>

\* rows = await page.evaluate(js), the rest of _extract_js, norm_rows, and
\* the call of ctx.close()
Evaluate(t) ==
    /\ pc[t] = "evaluate"
    /\ IF CtxOf(t) \notin ctxLive
       THEN Raise(t, "TargetClosed") /\ UNCHANGED rows
       ELSE /\ rows' = [rows EXCEPT ![t] = ExtractJs(document)]
            /\ IF Pipeline(ExtractJs(document).out).ok
               THEN Await(t, "ctx_close")
               ELSE Raise(t, "ValueError")
    /\ UNCHANGED <<document, _pw, _browser, pwLive, brLive, ctxLive, calls, op, callNo,
                   tgt, fetchErr>>

\* await ctx.close() completes and scrape() returns its dict
CtxClose(t) ==
    /\ pc[t] = "ctx_close"
    /\ ctxLive' = ctxLive \ {CtxOf(t)}
    /\ LET p == Pipeline(rows[t].out)
       IN \/ Return(t, Some(ScrapeResult(p.raw_rows, p.norm_rows)))
          \/ CtxOf(t) \notin ctxLive /\ Raise(t, "TargetClosed")
    /\ UNCHANGED <<document, _pw, _browser, pwLive, brLive, calls, op, callNo, tgt,
                   rows, fetchErr>>

(* ------------------------------- stop() -------------------------------- *)
\* stop() after the browser part: `if self._pw: await self._pw.stop()`
StopPw(t) ==
    IF _pw # 0
    THEN Await(t, "pw_stop") /\ tgt' = [tgt EXCEPT ![t] = _pw]
    ELSE Return(t, None) /\ UNCHANGED tgt

\* a call of stop(), up to its first suspension
StopCall(t) ==
    /\ pc[t] = "idle" /\ calls < MaxCalls
    /\ calls' = calls + 1
    /\ op' = [op EXCEPT ![t] = "stop"]
    /\ callNo' = [callNo EXCEPT ![t] = calls + 1]
    /\ rows' = [rows EXCEPT ![t] = NoRows]
    /\ fetchErr' = [fetchErr EXCEPT ![t] = ""]
    /\ IF _browser # 0
       THEN pc' = [pc EXCEPT ![t] = "browser_close"]
            /\ ret' = [ret EXCEPT ![t] = NoRet]
            /\ tgt' = [tgt EXCEPT ![t] = _browser]
       ELSE IF _pw # 0
       THEN pc' = [pc EXCEPT ![t] = "pw_stop"]
            /\ ret' = [ret EXCEPT ![t] = NoRet]
            /\ tgt' = [tgt EXCEPT ![t] = _pw]
       ELSE Return(t, None) /\ tgt' = [tgt EXCEPT ![t] = 0]
    /\ UNCHANGED <<document, _pw, _browser, pwLive, brLive, ctxLive>>

\* await self._browser.close() completes; self._browser = None; closing a
\* browser closes its contexts
BrowserClosed(t) ==
    /\ pc[t] = "browser_close"
    /\ brLive' = brLive \ {tgt[t]}
    /\ ctxLive' = {c \in ctxLive : c[2] # tgt[t]}
    /\ _browser' = 0
    /\ StopPw(t)
    /\ UNCHANGED <<document, _pw, pwLive, calls, op, callNo, rows, fetchErr>>

\* await self._pw.stop() completes; self._pw = None; stopping a driver ends
\* the browser launched through it
PwStopped(t) ==
    /\ pc[t] = "pw_stop"
    /\ pwLive' = pwLive \ {tgt[t]}
    /\ brLive' = brLive \ {tgt[t]}
    /\ ctxLive' = {c \in ctxLive : c[2] # tgt[t]}
    /\ _pw' = 0
    /\ Return(t, None)
    /\ UNCHANGED <<document, _browser, calls, op, callNo, tgt, rows, fetchErr>>

(* --------------------------- specifications ---------------------------- *)
Step(t) ==
    \/ Call(t, "start")
    \/ Call(t, "scrape")
    \/ StopCall(t)
    \/ PwStarted(t)
    \/ Launched(t)
    \/ NewContextDone(t)
    \/ NewPageDone(t)
    \/ GotoOk(t)
    \/ GotoFail(t)
    \/ Settle(t)
    \/ Evaluate(t)
    \/ CtxClose(t)
    \/ BrowserClosed(t)
    \/ PwStopped(t)

\* callers running concurrently on one scraper object
Next == \E t \in Tasks : Step(t)
Spec == Init /\ [][Next]_vars

\* one caller, its calls in sequence, over the generated documents
NextSeq == Step(1)
SpecSeq == InitSeq /\ [][NextSeq]_vars

(* ------------------------------- claims -------------------------------- *)
HasResult(t) == ret[t].kind = "returned" /\ IsSome(ret[t].result)
Res(t) == Get(ret[t].result)

\* an absolute URL has a scheme; a URL without fragment has no '#'
IsAbsolute(u) == u.scheme # ""
NoFragment(u) == ~u.hash /\ u.frag = ""

\* C1 as stated: in every returned result, every non-null href of raw and
\* every non-null file_url of normalized is absolute and has no fragment.
C1_Original ==
    \A t \in Tasks : HasResult(t) =>
        /\ \A i \in 1..Len(Res(t).raw) :
             IsSome(Res(t).raw[i].href) =>
                 IsAbsolute(Get(Res(t).raw[i].href)) /\ NoFragment(Get(Res(t).raw[i].href))
        /\ \A i \in 1..Len(Res(t).normalized) :
             IsSome(Res(t).normalized[i].file_url) =>
                 /\ IsAbsolute(Get(Res(t).normalized[i].file_url))
                 /\ NoFragment(Get(Res(t).normalized[i].file_url))

\* C1 amended: in every returned result, every href of raw that is neither
\* null nor the empty string, and every non-null file_url of normalized, is
\* absolute and has no fragment.
C1_AbsoluteUrls ==
    \A t \in Tasks : HasResult(t) =>
        /\ \A i \in 1..Len(Res(t).raw) :
             (IsSome(Res(t).raw[i].href) /\ Get(Res(t).raw[i].href) # EmptyStr) =>
                 IsAbsolute(Get(Res(t).raw[i].href)) /\ NoFragment(Get(Res(t).raw[i].href))
        /\ \A i \in 1..Len(Res(t).normalized) :
             IsSome(Res(t).normalized[i].file_url) =>
                 /\ IsAbsolute(Get(Res(t).normalized[i].file_url))
                 /\ NoFragment(Get(Res(t).normalized[i].file_url))

\* a result was returned for a page whose extraction produced a relative,
\* fragment-bearing href and an empty-string href
C1_Witness ==
    \E t \in Tasks : HasResult(t) /\
        \E i, j \in 1..Len(rows[t].out) :
            /\ IsSome(rows[t].out[i].href) /\ Get(rows[t].out[i].href).hash
            /\ Get(rows[t].out[i].href).scheme = ""
            /\ rows[t].out[j].href = Some(EmptyStr)

ClaimKey(r) ==
    << IF r.title = None THEN NoText ELSE r.title[1],
       IF r.file = None THEN NoText ELSE r.file[1],
       IF r.href = None THEN EmptyStr ELSE r.href[1] >>
FirstIdx(cr) ==
    {i \in 1..Len(cr) : \A j \in 1..(i - 1) : ClaimKey(cr[j]) # ClaimKey(cr[i])}
Nth(S, k) == CHOOSE i \in S : Cardinality({j \in S : j <= i}) = k
Canonical(rs) == [i \in 1..Len(rs) |-> Absolutize(rs[i]).val]

\* C2: the raw sequence of a returned result is the subsequence of first
\* occurrences of each (title-or-empty, label-or-empty, href-or-empty) key
\* of the canonicalized rows, in extraction order, and no two raw records
\* have the same (title, label, href) triple.
C2_FirstOccurrences ==
    \A t \in Tasks : HasResult(t) =>
        LET cr == Canonical(rows[t].out)
            F == FirstIdx(cr)
            raw == Res(t).raw
        IN /\ Len(raw) = Cardinality(F)
           /\ \A k \in 1..Len(raw) : raw[k] = cr[Nth(F, k)]
           /\ \A k1, k2 \in 1..Len(raw) :
                k1 # k2 => <<raw[k1].title, raw[k1].file, raw[k1].href>>
                           # <<raw[k2].title, raw[k2].file, raw[k2].href>>

\* a result that kept at least two records and dropped a duplicate
C2_Witness ==
    \E t \in Tasks : HasResult(t) /\ Len(Res(t).raw) >= 2
                     /\ Len(Res(t).raw) < Len(rows[t].out)

\* C3: in every returned result count, len(raw) and len(normalized) agree
\* and normalized[i] is the normalization of raw[i].
C3_IndexAligned ==
    \A t \in Tasks : HasResult(t) =>
        /\ Res(t).count = Len(Res(t).raw)
        /\ Len(Res(t).normalized) = Len(Res(t).raw)
        /\ \A i \in 1..Len(Res(t).raw) :
             /\ Res(t).normalized[i].entity_title = StripOrNone(Res(t).raw[i].title)
             /\ Res(t).normalized[i].file_label = StripOrNone(Res(t).raw[i].file)
             /\ Res(t).normalized[i].file_url =
                    (IF Res(t).raw[i].href = Some(EmptyStr) THEN None ELSE Res(t).raw[i].href)
             /\ Res(t).normalized[i] = _normalize(Res(t).raw[i])

\* a result with two records, after a duplicate was dropped
C3_Witness ==
    \E t \in Tasks : HasResult(t) /\ Res(t).count = 2 /\ Len(rows[t].out) > 2

EngineVars == <<_pw, _browser, pwLive, brLive, ctxLive>>
StartBegins(t) == calls' = calls + 1 /\ op'[t] = "start" /\ callNo'[t] = calls'
StopBegins(t) == calls' = calls + 1 /\ op'[t] = "stop" /\ callNo'[t] = calls'

\* C4: in a sequential run, a start() call made while an engine is running
\* returns at once, launches nothing and leaves the handles unchanged; a
\* stop() call made while nothing is running returns at once, closes
\* nothing and raises nothing.
C4_Idempotent ==
    [][\A t \in Tasks :
         /\ (StartBegins(t) /\ brLive # {}) =>
                /\ UNCHANGED EngineVars
                /\ pc'[t] = "idle" /\ ret'[t] = Returned(None)
         /\ (StopBegins(t) /\ brLive = {} /\ pwLive = {}) =>
                /\ UNCHANGED EngineVars
                /\ pc'[t] = "idle" /\ ret'[t] = Returned(None)]_vars

\* a start() call has returned while the engine of an earlier call runs
C4_Witness ==
    \E t \in Tasks : /\ op[t] = "start" /\ pc[t] = "idle" /\ ret[t] = Returned(None)
                     /\ _browser # 0 /\ _browser # callNo[t] /\ _browser \in brLive

\* C5: once page.goto has raised in a scrape() call, that call has ended by
\* raising the same error and has returned no result.
C5_FetchFailurePropagates ==
    \A t \in Tasks : fetchErr[t] # "" =>
        /\ pc[t] = "idle"
        /\ ret[t].kind = "raised" /\ ret[t].err = fetchErr[t]
        /\ ret[t].result = None

\* a scrape() call ended with the navigation error or timeout of its fetch
C5_Witness ==
    \E t \in Tasks : op[t] = "scrape" /\ fetchErr[t] \in FetchErrors /\ pc[t] = "idle"

\* C6 as stated: canonicalization never raises for a malformed href; the
\* record keeps its href and normalization yields file_type null for it.
C6_Original ==
    \A t \in Tasks :
        /\ ret[t].err # "ValueError"
        /\ HasResult(t) =>
             \A i \in 1..Len(rows[t].out) :
                 (IsSome(rows[t].out[i].href) /\ Get(rows[t].out[i].href).netloc \in BadNetlocs)
                 => \E k \in 1..Len(Res(t).raw) :
                        /\ Res(t).raw[k].href = rows[t].out[i].href
                        /\ Res(t).normalized[k].file_type = None

\* C7: whenever the in-page script has run, a document with at least one
\* title element got all its rows from Tier A and Tier B did not run, and a
\* document without title elements got all its rows from Tier B.
C7_TierExclusive ==
    \A t \in Tasks : rows[t].ran # "" =>
        IF Len(document.entities) > 0
        THEN rows[t].ran = "A" /\ rows[t].out = TierA(document)
        ELSE rows[t].ran = "B" /\ rows[t].out = TierB(document)

\* Tier A ran and yielded nothing although Tier B would have found links
C7_Witness ==
    \E t \in Tasks : rows[t].ran = "A" /\ rows[t].out = <<>> /\ TierB(document) # <<>>

\* the (title element, file element) pairs of a document, in order
ClaimPairs(doc) ==
    LET f(titleEl) == FilesOf(doc, titleEl) IN FlatMap(f, doc.entities)
\* the element has no visible text to take a label from and no href
Bare(el) ==
    IF el.tag = "a" THEN el.innerText = NoText /\ el.href = None
    ELSE IF el.inner # <<>> THEN el.inner[1].innerText = NoText /\ el.inner[1].href = None
    ELSE el.innerText = NoText

\* C8 as stated: no row of the explicit-markup path has both label and
\* href null.
C8_Original ==
    \A t \in Tasks : rows[t].ran = "A" =>
        \A i \in 1..Len(rows[t].out) :
            ~(rows[t].out[i].file = None /\ rows[t].out[i].href = None)

\* C8 amended: Tier A emits exactly one row per (title, file element) pair,
\* none for a title without file element, and a row has both label and
\* href null exactly when its file element has no visible text and no href.
C8_OnePerPair ==
    \A t \in Tasks : rows[t].ran = "A" =>
        LET P == ClaimPairs(document)
        IN /\ Len(rows[t].out) = Len(P)
           /\ \A i \in 1..Len(P) :
                (rows[t].out[i].file = None /\ rows[t].out[i].href = None) <=> Bare(P[i])

\* Tier A emitted a row with label and href both null, and another row
C8_Witness ==
    \E t \in Tasks : rows[t].ran = "A" /\ Len(rows[t].out) >= 2 /\
        \E i \in 1..Len(rows[t].out) :
            rows[t].out[i].file = None /\ rows[t].out[i].href = None

\* C9 as stated: at most one engine runs at a time and the running engine
\* is the one self._browser refers to, so that stop() will close it.
C9_Original ==
    /\ Cardinality(brLive) <= 1
    /\ \A b \in brLive : b = _browser

\* C10 as stated: every open context belongs to a scrape() call that is
\* still running.
C10_Original ==
    \A c \in ctxLive :
        \E t \in Tasks : /\ callNo[t] = c[1] /\ op[t] = "scrape"
                         /\ pc[t] \in {"new_page", "goto", "settle", "evaluate", "ctx_close"}
====
